---------------------------- MODULE Spec2Model ----------------------------
(***************************************************************************)
(* Model of the action matching and ranking engine, src/matching-utils.ts  *)
(* (class ActionMatcher).                                                  *)
(*                                                                         *)
(* Strings are sequences of characters, a character being a one-element    *)
(* name such as "a".  Numbers that the code keeps as IEEE doubles are      *)
(* exact rationals <<n, d>> in lowest terms, and NaN is the pair <<0, 0>>. *)
(* An optional field is a sequence of length 0 (absent, undefined) or 1.   *)
(***************************************************************************)
EXTENDS Integers, Sequences, FiniteSets, TLC

\* catalog, query, options: the arguments of the rankActions call (actions,
\*   query, options).
\* tasks: the calculateMatchScore calls that actions.map started, one per
\*   catalog entry.
\* pc: "scoring" while rankActions awaits Promise.all, "returned" once it has
\*   resolved with result, "threw" once it has rejected.
\* result: the array rankActions resolved with.
\* previous: the array the call before this one resolved with, on the same
\*   arguments (absent during the first call).
\* prim: one call of a similarity primitive on its own: the function, its
\*   arguments and, once it has returned, its value.
\* handler: one call of the SEND_THOUGHT handler: its payload, where it
\*   stands, the runtime calls it has made and the error it rejected with.
\* discover: one call of the DISCOVER_ACTIONS handler: where it stands and the
\*   content the model extracted from the message.
VARIABLES catalog, query, options, tasks, pc, result, previous, prim, handler,
          discover

vars == <<catalog, query, options, tasks, pc, result, previous, prim, handler,
          discover>>

---------------------------------------------------------------------------
(* Bounds of the model. *)

\* Longest catalog handed to rankActions.
MaxCatalog == 2

\* Longest capability list drawn from the tag pool for a call of
\* calculateCapabilitySimilarity on its own.
MaxTags == 2

\* Longest string drawn from the alphabet for a call of levenshteinDistance
\* on its own.
MaxWord == 2

---------------------------------------------------------------------------
(* Optional values. *)

None == <<>>
Some(x) == <<x>>
IsSome(o) == Len(o) = 1
Get(o) == o[1]

\* A property that holds null, as against one that is absent (None).
NullOption == <<"null", "null">>
IsNull(o) == Len(o) = 2

---------------------------------------------------------------------------
(* Numbers. *)

RECURSIVE GCD(_, _)
GCD(a, b) == IF b = 0 THEN a ELSE GCD(b, a % b)

NaN == <<0, 0>>
IsNaN(x) == x[2] = 0

\* The number n / d as JavaScript's division gives it for n >= 0, d >= 0:
\* 0 / 0 is NaN.
Rat(n, d) == IF d = 0 THEN NaN ELSE LET g == GCD(n, d) IN <<n \div g, d \div g>>

Zero == <<0, 1>>
One == <<1, 1>>

RAdd(x, y) ==
    IF IsNaN(x) \/ IsNaN(y) THEN NaN
    ELSE Rat(x[1] * y[2] + y[1] * x[2], x[2] * y[2])

RMul(x, y) ==
    IF IsNaN(x) \/ IsNaN(y) THEN NaN ELSE Rat(x[1] * y[1], x[2] * y[2])

RDiv(x, y) ==
    IF IsNaN(x) \/ IsNaN(y) THEN NaN ELSE Rat(x[1] * y[2], x[2] * y[1])

\* x > y and x >= y on doubles: false whenever an operand is NaN.
RGt(x, y) == ~IsNaN(x) /\ ~IsNaN(y) /\ x[1] * y[2] > y[1] * x[2]
RGe(x, y) == ~IsNaN(x) /\ ~IsNaN(y) /\ x[1] * y[2] >= y[1] * x[2]

\* Math.max(x, y): NaN when an operand is NaN.
MathMax(x, y) ==
    IF IsNaN(x) \/ IsNaN(y) THEN NaN ELSE IF RGe(x, y) THEN x ELSE y

IntMax(a, b) == IF a >= b THEN a ELSE b
IntMin(a, b) == IF a <= b THEN a ELSE b

---------------------------------------------------------------------------
(* Characters and String.prototype.toLowerCase.                            *)

UpperChars == <<"A", "B", "C", "D", "E", "F", "G", "H", "I", "J", "K", "L", "M",
                "N", "O", "P", "Q", "R", "S", "T", "U", "V", "W", "X", "Y", "Z">>
LowerChars == <<"a", "b", "c", "d", "e", "f", "g", "h", "i", "j", "k", "l", "m",
                "n", "o", "p", "q", "r", "s", "t", "u", "v", "w", "x", "y", "z">>
DigitChars == <<"0", "1", "2", "3", "4", "5", "6", "7", "8", "9">>

Range(s) == {s[i] : i \in 1..Len(s)}

\* U+0130, LATIN CAPITAL LETTER I WITH DOT ABOVE, and U+0307, COMBINING DOT
\* ABOVE: toLowerCase maps the one code unit U+0130 to the two code units
\* U+0069 U+0307 (Unicode SpecialCasing, unconditional).
IDotAbove == "U+0130"
CombiningDot == "U+0307"

\* The code units toLowerCase gives for each code unit it changes.
LowerMap ==
    [c \in Range(UpperChars) \cup {IDotAbove} |->
        IF c = IDotAbove THEN <<"i", CombiningDot>>
        ELSE <<LowerChars[CHOOSE i \in 1..Len(UpperChars) : UpperChars[i] = c]>>]

LowerOf(c) == IF c \in DOMAIN LowerMap THEN LowerMap[c] ELSE <<c>>

\* The code units of s, each replaced by what LowerOf gives for it (the
\* string is halved so that long strings do not nest deeply).
RECURSIVE toLowerCase(_)
toLowerCase(s) ==
    IF s = <<>> THEN <<>>
    ELSE IF Len(s) = 1 THEN LowerOf(s[1])
    ELSE LET half == Len(s) \div 2
         IN  toLowerCase(SubSeq(s, 1, half)) \o toLowerCase(SubSeq(s, half + 1, Len(s)))

\* \w of a regular expression without the u flag: [A-Za-z0-9_].
WordChars ==
    Range(UpperChars) \cup Range(LowerChars) \cup Range(DigitChars) \cup {"_"}

IsWordChar(c) == c \in WordChars

\* \s of a regular expression (the model's strings hold space and tab).
IsSpace(c) == c \in {" ", "TAB"}

---------------------------------------------------------------------------
(* Text normalizer: extractKeyTerms.                                       *)

\* A replacement that puts a space where it removes a character.
StripNonWordToSpace(s) ==
    [i \in DOMAIN s |-> IF IsWordChar(s[i]) \/ IsSpace(s[i]) THEN s[i] ELSE " "]

\* text.replace(/[^\w\s]/g, '')
StripNonWord(s) == SelectSeq(s, LAMBDA c : IsWordChar(c) \/ IsSpace(c))

\* s.split(/\s+/): the pieces between maximal runs of whitespace, the empty
\* pieces at either end included.  toks are the finished pieces, cur the
\* piece being read, inRun whether the last character read was whitespace.
RECURSIVE SplitFrom(_, _, _, _)
SplitFrom(s, toks, cur, inRun) ==
    IF s = <<>> THEN Append(toks, cur)
    ELSE IF IsSpace(Head(s))
         THEN IF inRun THEN SplitFrom(Tail(s), toks, cur, TRUE)
              ELSE SplitFrom(Tail(s), Append(toks, cur), <<>>, TRUE)
         ELSE SplitFrom(Tail(s), toks, Append(cur, Head(s)), FALSE)

SplitWhitespace(s) == SplitFrom(s, <<>>, <<>>, FALSE)

\* new Set(seq) read in insertion order: the first occurrence of each element.
RECURSIVE Dedup(_, _)
Dedup(s, seen) ==
    IF s = <<>> THEN <<>>
    ELSE IF Head(s) \in seen THEN Dedup(Tail(s), seen)
         ELSE <<Head(s)>> \o Dedup(Tail(s), seen \cup {Head(s)})

\* The Set extractKeyTerms returns, as the sequence of its elements in
\* insertion order (Array.from reads it in that order).
extractKeyTermsSeq(text) ==
    Dedup(SelectSeq(SplitWhitespace(StripNonWord(toLowerCase(text))),
                    LAMBDA word : Len(word) > 2), {})

extractKeyTerms(text) == Range(extractKeyTermsSeq(text))

---------------------------------------------------------------------------
(* Similarity primitives.                                                  *)

jaccardSimilarity(set1, set2) ==
    LET intersection == {x \in set1 : x \in set2}
        union == set1 \cup set2
    IN  Rat(Cardinality(intersection), Cardinality(union))

\* The value of i when the while loop started at i ends: the first position
\* from i on at which the loop condition is false.
PrefixLen(str1, str2, i) ==
    CHOOSE j \in i..IntMax(i, IntMin(Len(str1), Len(str2))) :
        /\ \A k \in i..(j - 1) : str1[k + 1] = str2[k + 1]
        /\ ~(j < Len(str1) /\ j < Len(str2) /\ str1[j + 1] = str2[j + 1])

longestCommonPrefix(str1, str2) == SubSeq(str1, 1, PrefixLen(str1, str2, 0))

\* The prefix is taken on the lowercased words, maxLength on the words as given.
getWordSimilarity(word1, word2) ==
    LET prefix == longestCommonPrefix(toLowerCase(word1), toLowerCase(word2))
        maxLength == IntMax(Len(word1), Len(word2))
    IN  Rat(Len(prefix), maxLength)

\* A substitution that costs 1 also between equal characters.
costAlwaysOne(a, b, i, j) == 1

\* const cost = a[i - 1] === b[j - 1] ? 0 : 1 (positions counted from 1).
cost(a, b, i, j) == IF a[i] = b[j] THEN 0 ELSE 1

\* Row j of the matrix from its cell i on, given the row above and the cell
\* to the left: matrix[j][i] is the least of left + 1, above + 1 and
\* diagonal + cost.
RECURSIVE matrixRowFrom(_, _, _, _, _, _)
matrixRowFrom(a, b, j, above, row, i) ==
    IF i > Len(a) THEN row
    ELSE LET cell == IntMin(IntMin(row[i] + 1, above[i + 1] + 1),
                            above[i] + cost(a, b, i, j))
         IN  matrixRowFrom(a, b, j, above, Append(row, cell), i + 1)

\* The rows of the matrix from row j on, given the row above; the last row.
\* A row is the sequence of its cells 0..a.length, and matrix[j][0] = j.
RECURSIVE matrixRowsFrom(_, _, _, _)
matrixRowsFrom(a, b, above, j) ==
    IF j > Len(b) THEN above
    ELSE matrixRowsFrom(a, b, matrixRowFrom(a, b, j, above, <<j>>, 1), j + 1)

levenshteinDistance(a, b) ==
    IF Len(a) = 0 THEN Len(b)
    ELSE IF Len(b) = 0 THEN Len(a)
    ELSE LET firstRow == [i \in 1..(Len(a) + 1) |-> i - 1]
         IN  matrixRowsFrom(a, b, firstRow, 1)[Len(a) + 1]

---------------------------------------------------------------------------
(* Capability similarity: calculateCapabilitySimilarity.                   *)

\* The threshold of line 86, 0.7.
MatchThreshold == <<7, 10>>

\* The inner loop: bestMatch after comparing queryCap with each of actionCaps.
RECURSIVE BestMatch(_, _, _)
BestMatch(queryCap, actionCaps, bestMatch) ==
    IF actionCaps = <<>> THEN bestMatch
    ELSE BestMatch(queryCap, Tail(actionCaps),
                   MathMax(bestMatch, getWordSimilarity(queryCap, Head(actionCaps))))

\* An accumulation that counts every query tag, matched or not.
AccumulateEveryTag(acc, bestMatch) ==
    [totalSimilarity |-> IF RGt(bestMatch, MatchThreshold)
                         THEN RAdd(acc.totalSimilarity, bestMatch)
                         ELSE acc.totalSimilarity,
     matches |-> acc.matches + 1]

\* An accumulation that takes a best match at the threshold as a match.
AccumulateAtThreshold(acc, bestMatch) ==
    IF RGe(bestMatch, MatchThreshold)
    THEN [totalSimilarity |-> RAdd(acc.totalSimilarity, bestMatch),
          matches |-> acc.matches + 1]
    ELSE acc

\* if (bestMatch > 0.7) { totalSimilarity += bestMatch; matches++; }
Accumulate(acc, bestMatch) ==
    IF RGt(bestMatch, MatchThreshold)
    THEN [totalSimilarity |-> RAdd(acc.totalSimilarity, bestMatch),
          matches |-> acc.matches + 1]
    ELSE acc

\* return matches > 0 ? totalSimilarity / matches : 0
CapabilityResult(acc) ==
    IF acc.matches > 0 THEN RDiv(acc.totalSimilarity, <<acc.matches, 1>>) ELSE Zero

RECURSIVE CapabilityLoop(_, _, _)
CapabilityLoop(actionCaps, queryCaps, acc) ==
    IF queryCaps = <<>> THEN acc
    ELSE CapabilityLoop(actionCaps, Tail(queryCaps),
                        Accumulate(acc, BestMatch(Head(queryCaps), actionCaps, Zero)))

calculateCapabilitySimilarity(actionCapabilities, queryCapabilities) ==
    CapabilityResult(CapabilityLoop(actionCapabilities, queryCapabilities,
                                    [totalSimilarity |-> Zero, matches |-> 0]))

---------------------------------------------------------------------------
(* Match score of one action: calculateMatchScore.                         *)

\* x?.length > 0 of an optional array.
HasItems(o) == IsSome(o) /\ Len(Get(o)) > 0

\* An absent string in a string concatenation reads "undefined".
UndefinedText == <<"u", "n", "d", "e", "f", "i", "n", "e", "d">>
Text(o) == IF IsSome(o) THEN Get(o) ELSE UndefinedText

\* array.join(' ')
RECURSIVE Join(_)
Join(strs) ==
    IF strs = <<>> THEN <<>>
    ELSE IF Len(strs) = 1 THEN Head(strs)
    ELSE Head(strs) \o <<" ">> \o Join(Tail(strs))

\* matches: {} of a fresh MatchScore.
NoMatches == [f \in {} |-> Zero]

\* scores.matches[field] = value
SetMatch(matches, field, value) ==
    [f \in DOMAIN matches \cup {field} |-> IF f = field THEN value ELSE matches[f]]

\* The query's terms with its contextTerms added to the keywords.
queryTermsWithContext(q) ==
    {toLowerCase(k) : k \in Range(Get(q.keywords))}
    \cup (IF IsSome(q.contextTerms)
          THEN {toLowerCase(k) : k \in Range(Get(q.contextTerms))} ELSE {})

\* new Set(query.keywords.map(k => k.toLowerCase()))
queryTerms(q) == {toLowerCase(k) : k \in Range(Get(q.keywords))}

\* The description score without its discount.
DescriptionFactorMissing == One

\* The factors of lines 121 and 128.
DescriptionFactor == <<4, 5>>
SimilesFactor == <<3, 5>>

\* A run of the try block is [thrown, matches]: thrown once a statement has
\* raised (a text method called on an absent field), matches as assigned so far.
\* Lines 110-115.
nameMatching(run, action, q) ==
    IF run.thrown \/ ~HasItems(q.keywords) THEN run
    ELSE IF ~IsSome(action.name) THEN [run EXCEPT !.thrown = TRUE]
    ELSE [run EXCEPT !.matches = SetMatch(@, "name",
              jaccardSimilarity(extractKeyTerms(Get(action.name)), queryTerms(q)))]

\* Lines 117-122.
descriptionMatching(run, action, q) ==
    IF run.thrown \/ ~HasItems(q.keywords) THEN run
    ELSE IF ~IsSome(action.description) THEN [run EXCEPT !.thrown = TRUE]
    ELSE [run EXCEPT !.matches = SetMatch(@, "description",
              RMul(jaccardSimilarity(extractKeyTerms(Get(action.description)),
                                     queryTerms(q)),
                   DescriptionFactor))]

\* The similes score assigned whenever the action has a similes array.
similesMatchingWhenDefined(run, action, q) ==
    IF run.thrown \/ ~(HasItems(q.keywords) /\ IsSome(action.similes)) THEN run
    ELSE [run EXCEPT !.matches = SetMatch(@, "similes",
              RMul(jaccardSimilarity(extractKeyTerms(Join(Get(action.similes))),
                                     queryTerms(q)),
                   SimilesFactor))]

\* Lines 124-129.
similesMatching(run, action, q) ==
    IF run.thrown \/ ~(HasItems(q.keywords) /\ HasItems(action.similes)) THEN run
    ELSE [run EXCEPT !.matches = SetMatch(@, "similes",
              RMul(jaccardSimilarity(extractKeyTerms(Join(Get(action.similes))),
                                     queryTerms(q)),
                   SimilesFactor))]

\* The part of the try block before the first await.
keywordMatching(action, q) ==
    similesMatching(
        descriptionMatching(
            nameMatching([thrown |-> FALSE, matches |-> NoMatches], action, q),
            action, q),
        action, q)

\* The capabilities derived also when the action's capabilities array is empty.
actionCapabilitiesWhenNonEmpty(action) ==
    IF HasItems(action.capabilities) THEN Get(action.capabilities)
    ELSE extractKeyTermsSeq(Text(action.description) \o <<" ">> \o Text(action.name))

\* action.capabilities || this.extractKeyTerms(action.description + ' ' + action.name),
\* as Array.from reads it.
actionCapabilitiesOf(action) ==
    IF IsSome(action.capabilities) THEN Get(action.capabilities)
    ELSE extractKeyTermsSeq(Text(action.description) \o <<" ">> \o Text(action.name))

weights == [name |-> <<2, 5>>, description |-> <<3, 10>>,
            similes |-> <<1, 10>>, capabilities |-> <<1, 5>>]

\* Object.entries reads the keys in the order they were assigned.
FieldOrder == <<"name", "description", "similes", "capabilities">>

RECURSIVE WeightedSumFrom(_, _, _)
WeightedSumFrom(matches, fields, sum) ==
    IF fields = <<>> THEN sum
    ELSE WeightedSumFrom(matches, Tail(fields),
             IF Head(fields) \in DOMAIN matches
             THEN RAdd(sum, RMul(matches[Head(fields)], weights[Head(fields)]))
             ELSE sum)

\* Lines 149-151.
finalScore(matches) == WeightedSumFrom(matches, FieldOrder, Zero)

\* const scores: MatchScore = { score: 0, matches: {} }
NewScores == [score |-> Zero, matches |-> NoMatches]

\* One call of calculateMatchScore in flight.  pc is "ready" (not yet run),
\* "awaiting" (suspended at an await of the capability loop), "done"
\* (resolved with scores) or "rejected" (an exception left the call).  caps,
\* qi, ai, bestMatch and acc are the locals of calculateCapabilitySimilarity:
\* the action's capabilities, the positions of the two loops, bestMatch, and
\* totalSimilarity with matches.
NewTask ==
    [pc |-> "ready", scores |-> NewScores, caps |-> <<>>, qi |-> 0, ai |-> 0,
     bestMatch |-> Zero, acc |-> [totalSimilarity |-> Zero, matches |-> 0]]

\* A catch block that lets the error leave the call.
rethrowError(t) == [t EXCEPT !.pc = "rejected"]

\* The catch block, lines 153-156: the error is logged, score is reset and
\* the call goes on to return scores.
catchError(t) == [t EXCEPT !.pc = "done", !.scores.score = Zero]

\* return scores, after the final score of lines 141-151.
returnScores(t, matches) ==
    [NewTask EXCEPT !.pc = "done",
                    !.scores = [score |-> finalScore(matches), matches |-> matches]]

\* The MatchScore calculateMatchScore resolves to when nothing else runs
\* between its steps.
calculateMatchScore(action, q) ==
    LET run == keywordMatching(action, q)
        full == IF HasItems(q.capabilities)
                THEN SetMatch(run.matches, "capabilities",
                         calculateCapabilitySimilarity(actionCapabilitiesOf(action),
                                                       Get(q.capabilities)))
                ELSE run.matches
    IN  IF run.thrown
        THEN catchError([NewTask EXCEPT !.scores.matches = run.matches]).scores
        ELSE returnScores(NewTask, full).scores

---------------------------------------------------------------------------
(* calculateMatchScore as it runs: from its start to the first await, and  *)
(* from one await to the next.                                             *)

\* The call from its first statement to its first await (or to its return).
startTask(action, q) ==
    LET run == keywordMatching(action, q)
    IN  IF run.thrown
        THEN catchError([NewTask EXCEPT !.scores.matches = run.matches])
        ELSE IF HasItems(q.capabilities)
        THEN [NewTask EXCEPT !.pc = "awaiting",
                             !.scores.matches = run.matches,
                             !.caps = actionCapabilitiesOf(action),
                             !.qi = 1, !.ai = 1]
        ELSE returnScores(NewTask, run.matches)

\* The call resumed at an await of the capability loop, run to the next await
\* (or to its return).  With no action capability the loop body awaits
\* nothing and the call resumes once, at the await of line 135.
resumeTask(t, q) ==
    LET queryCaps == Get(q.capabilities)
        finish(acc) ==
            returnScores(t, SetMatch(t.scores.matches, "capabilities",
                                     CapabilityResult(acc)))
    IN  IF t.caps = <<>>
        THEN finish(CapabilityLoop(t.caps, queryCaps, t.acc))
        ELSE LET best == MathMax(t.bestMatch,
                                 getWordSimilarity(queryCaps[t.qi], t.caps[t.ai]))
             IN  IF t.ai < Len(t.caps)
                 THEN [t EXCEPT !.ai = t.ai + 1, !.bestMatch = best]
                 ELSE LET acc == Accumulate(t.acc, best)
                      IN  IF t.qi < Len(queryCaps)
                          THEN [t EXCEPT !.qi = t.qi + 1, !.ai = 1,
                                         !.bestMatch = Zero, !.acc = acc]
                          ELSE finish(acc)

---------------------------------------------------------------------------
(* Batch ranker: rankActions.                                              *)

\* A default minScore of 0.5, and one of 0.
DefaultMinScoreHalf == <<1, 2>>
DefaultMinScoreZero == Zero

\* The defaults of line 174.
DefaultMinScore == <<3, 10>>
DefaultMaxResults == 50

\* The destructuring defaults replace an absent property only.  A null
\* minScore reaches the comparison of line 184, which converts it to 0, and a
\* null maxResults reaches slice at line 186, which converts it to 0.
minScoreOf(opts) ==
    IF IsSome(opts.minScore) THEN Get(opts.minScore)
    ELSE IF IsNull(opts.minScore) THEN Zero
    ELSE DefaultMinScore
maxResultsOf(opts) ==
    IF IsSome(opts.maxResults) THEN Get(opts.maxResults)
    ELSE IF IsNull(opts.maxResults) THEN 0
    ELSE DefaultMaxResults

\* Promise.race in the place of Promise.all: settled once one task has.
promiseAnySettled(ts) == \E i \in DOMAIN ts : ts[i].pc \in {"done", "rejected"}

\* Promise.all settles once a task has rejected or all have resolved.
promiseAllSettled(ts) ==
    \/ \E i \in DOMAIN ts : ts[i].pc = "rejected"
    \/ \A i \in DOMAIN ts : ts[i].pc = "done"

\* scoredActions: one { action, score } per catalog entry, in catalog order.
\* idx, the entry's position in the catalog, is kept to tell apart equal
\* entries of the catalog; the code has no such field.
\* Scored actions in which each entry carries the score of the entry after
\* it, the last that of the first.
scoredActionsShifted(cat, scores) ==
    [i \in 1..Len(cat) |->
        [idx |-> i, action |-> cat[i], score |-> scores[(i % Len(cat)) + 1]]]

scoredActions(cat, scores) ==
    [i \in 1..Len(cat) |-> [idx |-> i, action |-> cat[i], score |-> scores[i]]]

\* A filter that keeps every scored action.
filterNothing(scored, minScore) == scored

\* .filter(({ score }) => score.score >= minScore)
filterByScore(scored, minScore) ==
    SelectSeq(scored, LAMBDA e : RGe(e.score.score, minScore))

\* An insertion that puts x before the elements that compare equal to it.
RECURSIVE insertSortedUnstable(_, _)
insertSortedUnstable(sorted, x) ==
    IF sorted = <<>> THEN <<x>>
    ELSE IF RGe(x.score.score, Head(sorted).score.score)
         THEN <<x>> \o sorted
         ELSE <<Head(sorted)>> \o insertSortedUnstable(Tail(sorted), x)

\* x put into a sequence sorted by (a, b) => b.score.score - a.score.score,
\* after every element that does not compare greater than it.
RECURSIVE insertSorted(_, _)
insertSorted(sorted, x) ==
    IF sorted = <<>> THEN <<x>>
    ELSE IF RGt(x.score.score, Head(sorted).score.score)
         THEN <<x>> \o sorted
         ELSE <<Head(sorted)>> \o insertSorted(Tail(sorted), x)

\* .sort((a, b) => b.score.score - a.score.score): Array.prototype.sort is
\* stable.
RECURSIVE sortFrom(_, _)
sortFrom(sorted, rest) ==
    IF rest = <<>> THEN sorted
    ELSE sortFrom(insertSorted(sorted, Head(rest)), Tail(rest))

sortByScore(scored) == sortFrom(<<>>, scored)

\* .slice(0, end): a negative end counts from the end of the array.
slice0(seq, end) ==
    LET to == IF end < 0 THEN IntMax(Len(seq) + end, 0) ELSE IntMin(end, Len(seq))
    IN  SubSeq(seq, 1, to)

\* Lines 183-186.
aggregate(scored, opts) ==
    slice0(sortByScore(filterByScore(scored, minScoreOf(opts))), maxResultsOf(opts))

\* The actions array sorted where it stands: its elements in the order of
\* the sorted scored actions.
actionsSortedInPlace(cat, scored) ==
    [k \in 1..Len(cat) |-> sortByScore(scored)[k].action]

\* The actions array the caller passed, once rankActions has returned: map
\* and filter each build an array of their own, and sort and slice are
\* called on the array filter built (lines 176-186).
actionsAfterRanking(cat, scored) == cat

\* The action and the query calculateMatchScore was passed, after the call:
\* the call assigns to its local scores only, and Array.from and new Set copy
\* what they read.
actionAfterScoring(action, q) == action
queryAfterScoring(action, q) == q

\* rankActions with the actions scored one at a time in catalog order.
rankActions(cat, q, opts) ==
    aggregate(scoredActions(cat, [i \in 1..Len(cat) |-> calculateMatchScore(cat[i], q)]),
              opts)

---------------------------------------------------------------------------
(* The arguments the model calls rankActions with.                         *)

\* "Market Analyzer"
MarketAnalyzerText == <<"M", "a", "r", "k", "e", "t", " ", "A", "n", "a", "l", "y", "z", "e", "r">>
\* "predicts stock trends"
PredictsStockTrendsText == <<"p", "r", "e", "d", "i", "c", "t", "s", " ", "s", "t", "o", "c", "k", " ", "t", "r", "e", "n", "d", "s">>
\* "market_analysis"
MarketAnalysisTag == <<"m", "a", "r", "k", "e", "t", "_", "a", "n", "a", "l", "y", "s", "i", "s">>
\* "Market_Analysis"
MarketAnalysisUpperTag == <<"M", "a", "r", "k", "e", "t", "_", "A", "n", "a", "l", "y", "s", "i", "s">>
\* "market"
MarketText == <<"m", "a", "r", "k", "e", "t">>
\* "trends"
TrendsText == <<"t", "r", "e", "n", "d", "s">>
\* "market trends"
MarketTrendsText == <<"m", "a", "r", "k", "e", "t", " ", "t", "r", "e", "n", "d", "s">>
\* "Market trends!"
MarketTrendsBangText == <<"M", "a", "r", "k", "e", "t", " ", "t", "r", "e", "n", "d", "s", "!">>
\* "Trends Analyzer"
TrendsAnalyzerText == <<"T", "r", "e", "n", "d", "s", " ", "A", "n", "a", "l", "y", "z", "e", "r">>
\* "predicts market stock"
PredictsMarketStockText == <<"p", "r", "e", "d", "i", "c", "t", "s", " ", "m", "a", "r", "k", "e", "t", " ", "s", "t", "o", "c", "k">>
\* "trading"
TradingTag == <<"t", "r", "a", "d", "i", "n", "g">>

Descriptor(name, description, similes, capabilities) ==
    [name |-> name, description |-> description, similes |-> similes,
     capabilities |-> capabilities]

Query(keywords, capabilities) ==
    [keywords |-> keywords, capabilities |-> capabilities, contextTerms |-> None]

\* The descriptor of end-to-end scenario 1.
MarketAnalyzer ==
    Descriptor(Some(MarketAnalyzerText), Some(PredictsStockTrendsText), None,
               Some(<<MarketAnalysisTag>>))

\* A descriptor that matches the scenario's query closely.
TrendWatcher ==
    Descriptor(Some(MarketTrendsText), Some(MarketTrendsBangText),
               Some(<<TrendsText>>), Some(<<MarketAnalysisTag, TradingTag>>))

\* A descriptor that scores as MarketAnalyzer does against the scenario's query.
TrendsAnalyzer ==
    Descriptor(Some(TrendsAnalyzerText), Some(PredictsMarketStockText), None,
               Some(<<MarketAnalysisUpperTag>>))

\* A malformed descriptor: it has a name and no description.
NoDescription ==
    Descriptor(Some(MarketText), None, None, Some(<<MarketAnalysisTag>>))

RankPool == {MarketAnalyzer, TrendWatcher, TrendsAnalyzer, NoDescription}

\* The query of end-to-end scenario 1, and a query of one keyword.
ScenarioQuery == Query(Some(<<MarketText, TrendsText>>), Some(<<MarketAnalysisTag>>))
MarketQuery == Query(Some(<<MarketText>>), None)

\* A query that supplies no keywords and no capabilities.
EmptyQuery == Query(None, Some(<<>>))

\* MarketQuery with contextTerms.
MarketContextQuery == [MarketQuery EXCEPT !.contextTerms = Some(<<TrendsText>>)]

RankQueries == {ScenarioQuery, MarketQuery, MarketContextQuery, EmptyQuery}

RankOptions ==
    [minScore : {None, Some(Zero), Some(<<1, 5>>)},
     maxResults : {None, Some(-1), Some(1), Some(2)}]

\* The arrays of at most n elements of pool.
Catalogs(pool, n) == UNION {[1..k -> pool] : k \in 0..n}

---------------------------------------------------------------------------
(* The state machine of one rankActions call, and of a second call on the  *)
(* same arguments.                                                         *)

\* actions.map(async action => ...) has started one call per catalog entry.
StartTasks(cat) == [i \in 1..Len(cat) |-> NewTask]

\* No primitive is called on its own, and no handler call is in flight.
NoPrim == [fn |-> "none", args |-> <<>>, ret |-> None]
NoDiscover == [pc |-> "idle", content |-> [filters |-> None]]
NoHandler ==
    [pc |-> "idle", payload |-> <<>>, calls |-> <<>>, isValid |-> None, error |-> None]

Init ==
    /\ catalog \in Catalogs(RankPool, MaxCatalog)
    /\ query \in RankQueries
    /\ options \in RankOptions
    /\ tasks = StartTasks(catalog)
    /\ pc = "scoring"
    /\ result = <<>>
    /\ previous = None
    /\ discover = NoDiscover
    /\ prim = NoPrim
    /\ handler = NoHandler

\* Task i runs from its first statement to its first await.
Start(i) ==
    /\ pc = "scoring"
    /\ tasks[i].pc = "ready"
    /\ tasks' = [tasks EXCEPT ![i] = startTask(catalog[i], query)]
    /\ catalog' = [catalog EXCEPT ![i] = actionAfterScoring(catalog[i], query)]
    /\ query' = queryAfterScoring(catalog[i], query)
    /\ UNCHANGED <<options, pc, result, previous, prim, handler, discover>>

\* Task i is resumed at the await it is suspended at.
Resume(i) ==
    /\ pc = "scoring"
    /\ tasks[i].pc = "awaiting"
    /\ tasks' = [tasks EXCEPT ![i] = resumeTask(tasks[i], query)]
    /\ catalog' = [catalog EXCEPT ![i] = actionAfterScoring(catalog[i], query)]
    /\ query' = queryAfterScoring(catalog[i], query)
    /\ UNCHANGED <<options, pc, result, previous, prim, handler, discover>>

\* await Promise.all(...) settles: rankActions rejects if a task rejected, and
\* otherwise filters, sorts and slices the scored actions and returns.
Aggregate ==
    /\ pc = "scoring"
    /\ promiseAllSettled(tasks)
    /\ IF \E i \in DOMAIN tasks : tasks[i].pc = "rejected"
       THEN pc' = "threw" /\ result' = <<>> /\ catalog' = catalog
       ELSE /\ pc' = "returned"
            /\ result' = aggregate(
                   scoredActions(catalog, [i \in DOMAIN tasks |-> tasks[i].scores]),
                   options)
            /\ catalog' = actionsAfterRanking(
                   catalog,
                   scoredActions(catalog, [i \in DOMAIN tasks |-> tasks[i].scores]))
    /\ UNCHANGED <<query, options, tasks, previous, prim, handler, discover>>

\* The caller invokes rankActions once more with the same arguments.
Reinvoke ==
    /\ pc = "returned"
    /\ previous = None
    /\ previous' = Some(result)
    /\ tasks' = StartTasks(catalog)
    /\ pc' = "scoring"
    /\ result' = <<>>
    /\ UNCHANGED <<catalog, query, options, prim, handler, discover>>

Next ==
    \/ \E i \in DOMAIN tasks : Start(i)
    \/ \E i \in DOMAIN tasks : Resume(i)
    \/ Aggregate
    \/ Reinvoke

Spec == Init /\ [][Next]_vars

---------------------------------------------------------------------------
(* calculateMatchScore on its own: the catalog holds one action, drawn     *)
(* from a wider set of descriptors and queries, and the options are        *)
(* omitted.                                                                *)

\* "abc"
AbcText == <<"a", "b", "c">>
\* "AI"
AiText == <<"A", "I">>
\* ""
EmptyText == <<>>
\* Three spaces.
BlankText == <<" ", " ", " ">>
\* Three times U+0130.
DottedTag == <<IDotAbove, IDotAbove, IDotAbove>>

ScoreNames == {None, Some(MarketAnalyzerText), Some(AbcText)}
ScoreDescriptions == {None, Some(PredictsStockTrendsText), Some(AbcText)}
ScoreSimiles == {None, Some(<<>>), Some(<<AbcText>>), Some(<<MarketText, TrendsText>>)}
ScoreCapabilities ==
    {None, Some(<<>>), Some(<<MarketAnalysisTag>>), Some(<<DottedTag>>),
     Some(<<EmptyText, MarketAnalysisTag>>)}

ScorePool ==
    {Descriptor(n, d, s, c) : n \in ScoreNames, d \in ScoreDescriptions,
                              s \in ScoreSimiles, c \in ScoreCapabilities}

ScoreKeywords ==
    {None, Some(<<>>), Some(<<MarketText, TrendsText>>), Some(<<AbcText>>),
     Some(<<MarketText, AiText>>)}
ScoreQueryCapabilities ==
    {None, Some(<<>>), Some(<<MarketText>>), Some(<<MarketAnalysisTag>>), Some(<<DottedTag>>),
     Some(<<EmptyText, MarketAnalysisTag>>)}

ScoreQueries == {Query(k, c) : k \in ScoreKeywords, c \in ScoreQueryCapabilities}

InitScore ==
    /\ catalog \in [1..1 -> ScorePool]
    /\ query \in ScoreQueries
    /\ options \in [minScore : {None, Some(<<19, 20>>)}, maxResults : {None}]
    /\ tasks = StartTasks(catalog)
    /\ pc = "scoring"
    /\ result = <<>>
    /\ previous = None
    /\ discover = NoDiscover
    /\ prim = NoPrim
    /\ handler = NoHandler

SpecScore == InitScore /\ [][Next]_vars

---------------------------------------------------------------------------
(* The similarity primitives on their own: one call of a private method    *)
(* of ActionMatcher on arguments drawn from bounded sets.                  *)

\* "predictors", and "predictory": nine characters of common prefix out of ten.
PredictorsTag == <<"p", "r", "e", "d", "i", "c", "t", "o", "r", "s">>
PredictoryTag == <<"p", "r", "e", "d", "i", "c", "t", "o", "r", "y">>
\* "abcdefghij", and "abcdefgxyz": seven characters of common prefix out of ten.
AbcdefghijTag == <<"a", "b", "c", "d", "e", "f", "g", "h", "i", "j">>
AbcdefgxyzTag == <<"a", "b", "c", "d", "e", "f", "g", "x", "y", "z">>

\* "a" repeated n times.
Repeated(n) == [i \in 1..n |-> "a"]

TagPool == {EmptyText, PredictorsTag, PredictoryTag, AbcdefghijTag, AbcdefgxyzTag}

\* Five query tags of which one, "predictory", shares a prefix with "predictors".
FiveTags == <<PredictoryTag, MarketText, TrendsText, AbcText, TradingTag>>

\* The pairs <<actionCapabilities, queryCapabilities>> the model calls
\* calculateCapabilitySimilarity with: the lists of at most MaxTags tags of
\* the pool, the five-tag query, and tags of 70 and 71 characters against one
\* of 100.
CapabilityCalls ==
    (Catalogs(TagPool, MaxTags) \X Catalogs(TagPool, MaxTags))
    \cup {<<<<PredictorsTag>>, FiveTags>>,
          <<<<Repeated(100)>>, <<Repeated(70)>>>>,
          <<<<Repeated(100)>>, <<Repeated(71)>>>>,
          <<<<Repeated(70), Repeated(100)>>, <<Repeated(71), Repeated(70)>>>>}

\* The term sets jaccardSimilarity is called with.
JaccardTerms == {MarketText, TrendsText, AbcText}
JaccardCalls == (SUBSET JaccardTerms) \X (SUBSET JaccardTerms)

\* "trade", "Trade" and "logistics".
TradeText == <<"t", "r", "a", "d", "e">>
TradeUpperText == <<"T", "r", "a", "d", "e">>
LogisticsText == <<"l", "o", "g", "i", "s", "t", "i", "c", "s">>

\* The pairs of words getWordSimilarity is called with.
SimilarityWords ==
    {EmptyText, TradeText, TradeUpperText, TradingTag, LogisticsText, DottedTag,
     PredictorsTag, PredictoryTag}
WordSimilarityCalls == SimilarityWords \X SimilarityWords

\* " ab  cde<TAB>fgh "
SpacedText == <<" ", "a", "b", " ", " ", "c", "d", "e", "TAB", "f", "g", "h", " ">>
\* "It's a co-op"
CoOpText == <<"I", "t", "'", "s", " ", "a", " ", "c", "o", "-", "o", "p">>
\* "abc ABC abc"
RepeatedAbcText == <<"a", "b", "c", " ", "A", "B", "C", " ", "a", "b", "c">>
\* "a.b.c"
DottedAbcText == <<"a", ".", "b", ".", "c">>
\* U+0130 followed by "st"
IDotStText == <<IDotAbove, "s", "t">>

\* The texts extractKeyTerms is called with.
NormalizerTexts ==
    {EmptyText, BlankText, MarketTrendsBangText, SpacedText, CoOpText,
     RepeatedAbcText, DottedAbcText, IDotStText, AiText, MarketAnalysisUpperTag}

\* "kitten" and "sitting"
KittenText == <<"k", "i", "t", "t", "e", "n">>
SittingText == <<"s", "i", "t", "t", "i", "n", "g">>

\* The strings of at most MaxWord characters over a three-letter alphabet,
\* and the pairs of strings levenshteinDistance is called with.
LevenshteinWords == Catalogs({"a", "b", "c"}, MaxWord)
LevenshteinCalls ==
    (LevenshteinWords \X LevenshteinWords)
    \cup {<<KittenText, SittingText>>, <<SittingText, KittenText>>}

PrimCall(fn, args) == [fn |-> fn, args |-> args, ret |-> None]

InitPrim ==
    /\ catalog = <<>>
    /\ query = Query(None, None)
    /\ options = [minScore |-> None, maxResults |-> None]
    /\ tasks = <<>>
    /\ pc = "idle"
    /\ result = <<>>
    /\ previous = None
    /\ discover = NoDiscover
    /\ handler = NoHandler
    /\ prim \in {PrimCall("jaccardSimilarity", a) : a \in JaccardCalls}
           \cup {PrimCall("calculateCapabilitySimilarity", a) : a \in CapabilityCalls}
           \cup {PrimCall("getWordSimilarity", a) : a \in WordSimilarityCalls}
           \cup {PrimCall("extractKeyTerms", <<text>>) : text \in NormalizerTexts}
           \cup {PrimCall("levenshteinDistance", a) : a \in LevenshteinCalls}

\* jaccardSimilarity(set1, set2) returns.
ReturnJaccardSimilarity ==
    /\ prim.fn = "jaccardSimilarity"
    /\ prim.ret = None
    /\ prim' = [prim EXCEPT !.ret = Some(jaccardSimilarity(prim.args[1], prim.args[2]))]
    /\ UNCHANGED <<catalog, query, options, tasks, pc, result, previous, handler, discover>>

\* calculateCapabilitySimilarity(actionCapabilities, queryCapabilities)
\* resolves.
ResolveCapabilitySimilarity ==
    /\ prim.fn = "calculateCapabilitySimilarity"
    /\ prim.ret = None
    /\ prim' = [prim EXCEPT !.ret =
                   Some(calculateCapabilitySimilarity(prim.args[1], prim.args[2]))]
    /\ UNCHANGED <<catalog, query, options, tasks, pc, result, previous, handler, discover>>

\* getWordSimilarity(word1, word2) resolves.
ResolveWordSimilarity ==
    /\ prim.fn = "getWordSimilarity"
    /\ prim.ret = None
    /\ prim' = [prim EXCEPT !.ret = Some(getWordSimilarity(prim.args[1], prim.args[2]))]
    /\ UNCHANGED <<catalog, query, options, tasks, pc, result, previous, handler, discover>>

\* extractKeyTerms(text) returns.
ReturnKeyTerms ==
    /\ prim.fn = "extractKeyTerms"
    /\ prim.ret = None
    /\ prim' = [prim EXCEPT !.ret = Some(extractKeyTerms(prim.args[1]))]
    /\ UNCHANGED <<catalog, query, options, tasks, pc, result, previous, handler, discover>>

\* levenshteinDistance(a, b) returns.
ReturnLevenshteinDistance ==
    /\ prim.fn = "levenshteinDistance"
    /\ prim.ret = None
    /\ prim' = [prim EXCEPT !.ret = Some(levenshteinDistance(prim.args[1], prim.args[2]))]
    /\ UNCHANGED <<catalog, query, options, tasks, pc, result, previous, handler, discover>>

NextPrim ==
    \/ ReturnJaccardSimilarity
    \/ ResolveCapabilitySimilarity
    \/ ResolveWordSimilarity
    \/ ReturnKeyTerms
    \/ ReturnLevenshteinDistance

SpecPrim == InitPrim /\ [][NextPrim]_vars

---------------------------------------------------------------------------
(* The SEND_THOUGHT handler of ThinkProtocolPlugin: sendThoughtHandler.    *)

\* A JavaScript value: its type and, for a string or a number, its text.
JsUndefined == [type |-> "undefined", text |-> <<>>]
JsNull == [type |-> "null", text |-> <<>>]
JsString(text) == [type |-> "string", text |-> text]
JsNumber(digits) == [type |-> "number", text |-> digits]

\* typeof v
TypeOf(v) == IF v.type = "null" THEN "object" ELSE v.type

\* !v is false: v converts to true.
Truthy(v) ==
    CASE v.type \in {"undefined", "null"} -> FALSE
      [] v.type = "string" -> v.text # <<>>
      [] v.type = "number" -> v.text # <<"0">>
      [] OTHER -> TRUE

\* String.prototype.trim: the whitespace at both ends removed.
RECURSIVE trimStart(_)
trimStart(s) == IF s # <<>> /\ IsSpace(Head(s)) THEN trimStart(Tail(s)) ELSE s

RECURSIVE trimEnd(_)
trimEnd(s) ==
    IF s # <<>> /\ IsSpace(s[Len(s)]) THEN trimEnd(SubSeq(s, 1, Len(s) - 1)) ELSE s

trim(s) == trimEnd(trimStart(s))

\* The least length of a trimmed signature, line 52.
MinSignatureLength == 10

\* A payload: a value that is no object, or an object with its content and
\* signature properties (undefined when the object has no such property).
NonObject(v) == [type |-> v.type, text |-> v.text,
                 content |-> JsUndefined, signature |-> JsUndefined]
ThoughtObject(content, signature) ==
    [type |-> "object", text |-> <<>>, content |-> content, signature |-> signature]

\* Line 46.
payloadInvalid(payload) == ~Truthy(payload) \/ TypeOf(payload) # "object"

\* Line 49.
contentInvalid(payload) ==
    \/ ~Truthy(payload.content)
    \/ TypeOf(payload.content) # "string"
    \/ Len(trim(payload.content.text)) = 0

\* The signature test on the length of the signature as given.
signatureInvalidUntrimmed(payload) ==
    \/ ~Truthy(payload.signature)
    \/ TypeOf(payload.signature) # "string"
    \/ Len(payload.signature.text) < MinSignatureLength

\* Line 52.
signatureInvalid(payload) ==
    \/ ~Truthy(payload.signature)
    \/ TypeOf(payload.signature) # "string"
    \/ Len(trim(payload.signature.text)) < MinSignatureLength

ThinkProtocolError(message) == [name |-> "ThinkProtocolError", message |-> message]

\* An error a call of the runtime rejected with.
RuntimeError == [name |-> "Error", message |-> "runtime"]

\* The first validation of lines 46-54 the payload fails, if any.
validationError(payload) ==
    IF payloadInvalid(payload)
    THEN Some(ThinkProtocolError("Invalid thought payload"))
    ELSE IF contentInvalid(payload)
    THEN Some(ThinkProtocolError("Thought content is required"))
    ELSE IF signatureInvalid(payload)
    THEN Some(ThinkProtocolError("Invalid or missing thought signature"))
    ELSE None

\* A call the handler makes on the runtime.
RuntimeCall(fn, payload) ==
    [fn |-> fn, content |-> payload.content.text, signature |-> payload.signature.text]

\* "test", and "test" between spaces.
TestText == <<"t", "e", "s", "t">>
PaddedTestText == <<" ", "t", "e", "s", "t", " ">>
\* "42", as a number and as digits.
FortyTwoDigits == <<"4", "2">>
\* "123456789", of nine characters, and "0123456789", of ten.
NineDigits == <<"1", "2", "3", "4", "5", "6", "7", "8", "9">>
TenDigits == <<"0", "1", "2", "3", "4", "5", "6", "7", "8", "9">>
\* "0123456789" between a space and a tab: twelve characters, ten trimmed.
PaddedTenDigits == <<" ">> \o TenDigits \o <<"TAB">>
\* "12345678" between two spaces and a space: eleven characters, eight trimmed.
PaddedEightDigits == <<" ", " ", "1", "2", "3", "4", "5", "6", "7", "8", " ">>

ThoughtContents ==
    {JsUndefined, JsNull, JsNumber(FortyTwoDigits), JsString(EmptyText),
     JsString(BlankText), JsString(TestText), JsString(PaddedTestText)}

ThoughtSignatures ==
    {JsUndefined, JsNumber(TenDigits), JsString(EmptyText), JsString(NineDigits),
     JsString(TenDigits), JsString(PaddedTenDigits), JsString(PaddedEightDigits)}

\* The payloads the handler is called with.
ThoughtPayloads ==
    {NonObject(v) : v \in {JsUndefined, JsNull, JsString(TestText),
                           JsNumber(FortyTwoDigits)}}
    \cup {ThoughtObject(c, s) : c \in ThoughtContents, s \in ThoughtSignatures}

InitThought ==
    /\ catalog = <<>>
    /\ query = Query(None, None)
    /\ options = [minScore |-> None, maxResults |-> None]
    /\ tasks = <<>>
    /\ pc = "idle"
    /\ result = <<>>
    /\ previous = None
    /\ discover = NoDiscover
    /\ prim = NoPrim
    /\ handler \in {[NoHandler EXCEPT !.pc = "called", !.payload = p] :
                        p \in ThoughtPayloads}

\* The handler runs from its first statement to the await of line 58: it
\* throws on the first validation the payload fails, and otherwise calls
\* runtime.secureVerify.
Validate ==
    /\ handler.pc = "called"
    /\ LET failed == validationError(handler.payload)
       IN  handler' =
               IF failed # None
               THEN [handler EXCEPT !.pc = "rejected", !.error = failed]
               ELSE [handler EXCEPT
                        !.pc = "verifying",
                        !.calls = Append(@, RuntimeCall("secureVerify", handler.payload))]
    /\ UNCHANGED <<catalog, query, options, tasks, pc, result, previous, prim, discover>>

\* runtime.secureVerify resolves to isValid (a boolean, as line 57 assumes):
\* the handler throws if it is false and otherwise calls runtime.callContract
\* with "recordMemory" (lines 59-75).
VerifyReturns(isValid) ==
    /\ handler.pc = "verifying"
    /\ handler' =
           IF ~isValid
           THEN [handler EXCEPT
                    !.pc = "rejected", !.isValid = Some(isValid),
                    !.error = Some(ThinkProtocolError("Signature verification failed"))]
           ELSE [handler EXCEPT
                    !.pc = "recording", !.isValid = Some(isValid),
                    !.calls = Append(@, RuntimeCall("callContract.recordMemory",
                                                    handler.payload))]
    /\ UNCHANGED <<catalog, query, options, tasks, pc, result, previous, prim, discover>>

\* runtime.secureVerify rejects: the await of line 58 throws the runtime's
\* error out of the handler.
VerifyRejects ==
    /\ handler.pc = "verifying"
    /\ handler' = [handler EXCEPT !.pc = "rejected", !.error = Some(RuntimeError)]
    /\ UNCHANGED <<catalog, query, options, tasks, pc, result, previous, prim, discover>>

\* runtime.callContract resolves and the handler returns tx (line 78).
ContractResolves ==
    /\ handler.pc = "recording"
    /\ handler' = [handler EXCEPT !.pc = "resolved"]
    /\ UNCHANGED <<catalog, query, options, tasks, pc, result, previous, prim, discover>>

\* runtime.callContract rejects: the await of line 67 throws.
ContractRejects ==
    /\ handler.pc = "recording"
    /\ handler' = [handler EXCEPT !.pc = "rejected", !.error = Some(RuntimeError)]
    /\ UNCHANGED <<catalog, query, options, tasks, pc, result, previous, prim, discover>>

NextThought ==
    \/ Validate
    \/ \E isValid \in BOOLEAN : VerifyReturns(isValid)
    \/ VerifyRejects
    \/ ContractResolves
    \/ ContractRejects

SpecThought == InitThought /\ [][NextThought]_vars

---------------------------------------------------------------------------
(* The DISCOVER_ACTIONS handler: the match options it hands to rankActions. *)

\* matchOptions of the handler's initial filters, lines 98-103.
HandlerMinScore == <<3, 10>>
HandlerMaxResults == 20
defaultMatchOptions ==
    [minScore |-> Some(HandlerMinScore), maxResults |-> Some(HandlerMaxResults)]

\* content.filters && typeof content.filters === 'object'
isDiscoverContent(content) == IsSome(content.filters)

\* { ...base, ...over }: every property over has, a null one included,
\* replaces that of base.
spreadOver(base, over) ==
    [k \in DOMAIN base |-> IF Len(over[k]) = 0 THEN base[k] ELSE over[k]]

\* filters.matchOptions after lines 124-133: spreading an absent or null
\* matchOptions adds no property.
mergeMatchOptions(content) ==
    IF ~isDiscoverContent(content) THEN defaultMatchOptions
    ELSE LET extracted == Get(content.filters).matchOptions
         IN  IF IsSome(extracted)
             THEN spreadOver(defaultMatchOptions, Get(extracted))
             ELSE defaultMatchOptions

\* The matchOptions the model may extract: absent, null, or an object whose
\* minScore and maxResults are each absent, null or a number.
ExtractedMatchOptions ==
    {None, NullOption}
    \cup {Some(mo) : mo \in [minScore : {None, NullOption, Some(<<1, 5>>)},
                             maxResults : {None, NullOption, Some(1)}]}

\* The contents generateObjectDeprecated may resolve to: without filters, or
\* with filters that hold one of these matchOptions.
ExtractedContents ==
    {[filters |-> None]}
    \cup {[filters |-> Some([matchOptions |-> mo])] : mo \in ExtractedMatchOptions}

InitDiscover ==
    /\ catalog \in Catalogs(RankPool, MaxCatalog)
    /\ query \in {ScenarioQuery, MarketQuery}
    /\ options = defaultMatchOptions
    /\ tasks = <<>>
    /\ pc = "idle"
    /\ result = <<>>
    /\ previous = None
    /\ prim = NoPrim
    /\ handler = NoHandler
    /\ discover \in {[pc |-> "extracted", content |-> c] : c \in ExtractedContents}

\* The handler merges the extracted filters into its own (lines 124-133)
\* and calls rankActions with filters.matchOptions (lines 201-209).
MergeFilters ==
    /\ discover.pc = "extracted"
    /\ discover' = [discover EXCEPT !.pc = "ranking"]
    /\ options' = mergeMatchOptions(discover.content)
    /\ tasks' = StartTasks(catalog)
    /\ pc' = "scoring"
    /\ UNCHANGED <<catalog, query, result, previous, prim, handler>>

NextDiscover ==
    \/ MergeFilters
    \/ \E i \in DOMAIN tasks : Start(i)
    \/ \E i \in DOMAIN tasks : Resume(i)
    \/ Aggregate

SpecDiscover == InitDiscover /\ [][NextDiscover]_vars

---------------------------------------------------------------------------
(* Properties.                                                             *)

\* Scoring the action raises inside the try block.
ScoringFails(action, q) == keywordMatching(action, q).thrown

Done(i) == tasks[i].pc = "done"

\* The scores of the catalog entries, as the tasks hold them.
TaskScores == [i \in DOMAIN tasks |-> tasks[i].scores]

\* The catalog without the entries whose scoring fails.
WellFormed(cat, q) == SelectSeq(cat, LAMBDA a : ~ScoringFails(a, q))

\* C1: rankActions never rejects and no calculateMatchScore call rejects,
\* also when scoring a descriptor fails; and once it has returned, the
\* scores of the descriptors whose scoring did not fail are, in catalog
\* order, the scores the same call gives on the catalog without the failing
\* descriptors.
C1_FailureContained ==
    /\ pc # "threw"
    /\ \A i \in DOMAIN tasks : tasks[i].pc # "rejected"
    /\ pc = "returned" =>
         LET kept == WellFormed(catalog, query)
             keptScores ==
                 SelectSeq(scoredActions(catalog, TaskScores),
                           LAMBDA e : ~ScoringFails(e.action, query))
         IN  /\ Len(keptScores) = Len(kept)
             /\ \A j \in 1..Len(kept) :
                    /\ keptScores[j].action = kept[j]
                    /\ keptScores[j].score = calculateMatchScore(kept[j], query)

\* A call has returned results for a catalog that holds a descriptor whose
\* scoring failed and one whose scoring did not.
C1_Witness ==
    /\ pc = "returned"
    /\ Len(result) > 0
    /\ \E i, j \in DOMAIN tasks :
          /\ ScoringFails(catalog[i], query)
          /\ ~ScoringFails(catalog[j], query)

\* C2: the MatchScore of a descriptor whose scoring failed has score 0 and
\* no field score.
C2_FailedScoreIsEmpty ==
    \A i \in DOMAIN tasks :
        (Done(i) /\ ScoringFails(catalog[i], query)) =>
            /\ tasks[i].scores.score = Zero
            /\ DOMAIN tasks[i].scores.matches = {}

\* The number of catalog entries whose score is at least minScore.
Passing == {i \in DOMAIN tasks : RGe(tasks[i].scores.score, minScoreOf(options))}

\* The result holds only scores of at least minScore, in non-increasing
\* order, and leaves out no passing entry that scores strictly higher than
\* one it holds.
ResultIsTopSlice ==
    /\ \A a \in 1..Len(result) : RGe(result[a].score.score, minScoreOf(options))
    /\ \A a, b \in 1..Len(result) :
           a < b => RGe(result[a].score.score, result[b].score.score)
    /\ \A i \in Passing :
           (\A a \in 1..Len(result) : result[a].idx # i) =>
               \A a \in 1..Len(result) :
                   ~RGt(tasks[i].scores.score, result[a].score.score)

\* C3: rankActions returns exactly min(maxResults, k) results, k the number
\* of entries scoring at least minScore, all of them scoring at least
\* minScore, in non-increasing order, none omitted that scores higher.
C3_TopSliceOfLengthMin ==
    pc = "returned" =>
        /\ Len(result) = IntMin(maxResultsOf(options), Cardinality(Passing))
        /\ ResultIsTopSlice

\* The same for the calls whose maxResults is a count (not negative).
RankCountForValidMaxResults ==
    (pc = "returned" /\ maxResultsOf(options) >= 0) => C3_TopSliceOfLengthMin

\* C4: the score of every scored descriptor is a number from 0 to 1.
C4_ScoreWithinUnitInterval ==
    \A i \in DOMAIN tasks :
        Done(i) =>
            /\ ~IsNaN(tasks[i].scores.score)
            /\ RGe(tasks[i].scores.score, Zero)
            /\ RGe(One, tasks[i].scores.score)

\* C5: whatever the order in which the tasks ran their steps, a task that is
\* done holds the score of its own descriptor, rankActions returns only once
\* every task is done, what it returns is what scoring the catalog one
\* descriptor at a time returns, and a second call on the same arguments
\* returns the same array.
C5_InterleavingIndependent ==
    /\ \A i \in DOMAIN tasks :
           Done(i) => tasks[i].scores = calculateMatchScore(catalog[i], query)
    /\ pc = "returned" =>
           /\ \A i \in DOMAIN tasks : Done(i)
           /\ result = rankActions(catalog, query, options)
           /\ IsSome(previous) => result = Get(previous)

\* A second call has returned at least two results for a query with
\* capabilities (every task was suspended at an await).
C5_Witness ==
    /\ pc = "returned"
    /\ IsSome(previous)
    /\ HasItems(query.capabilities)
    /\ Len(result) >= 2

\* C6: two results of equal score are in the order of their catalog entries.
C6_StableTieBreak ==
    pc = "returned" =>
        \A a, b \in 1..Len(result) :
            (a < b /\ result[a].score.score = result[b].score.score) =>
                result[a].idx < result[b].idx

\* The result holds two different descriptors of equal score.
C6_Witness ==
    /\ pc = "returned"
    /\ \E a, b \in 1..Len(result) :
          /\ a < b
          /\ result[a].score.score = result[b].score.score
          /\ result[a].action # result[b].action

\* C7: a call with a negative maxResults ends in an error and returns no
\* result list.
C7_NegativeMaxResultsRejected ==
    (pc # "scoring" /\ maxResultsOf(options) < 0) => pc = "threw"

\* The arguments of end-to-end scenario 1, minScore and maxResults omitted.
Scenario1 ==
    /\ catalog = <<MarketAnalyzer>>
    /\ query = ScenarioQuery
    /\ options = [minScore |-> None, maxResults |-> None]

\* C8 as the specification states it: scenario 1 returns one result, of a
\* score above 0.5.
C8_ScenarioScoreAboveHalf ==
    (pc = "returned" /\ Scenario1) =>
        /\ Len(result) = 1
        /\ RGt(result[1].score.score, <<1, 2>>)

\* C8: scenario 1 returns one result, of score 59/150 (0.3933...): name 1/3,
\* description 1/5, capabilities 1; that is above the default minScore 0.3
\* and below 0.5.
C8_ScenarioScore ==
    (pc = "returned" /\ Scenario1) =>
        /\ Len(result) = 1
        /\ result[1].action = MarketAnalyzer
        /\ result[1].score.matches =
               [name |-> <<1, 3>>, description |-> <<1, 5>>, capabilities |-> One]
        /\ result[1].score.score = <<59, 150>>
        /\ RGt(result[1].score.score, DefaultMinScore)
        /\ RGt(<<1, 2>>, result[1].score.score)

\* Scenario 1 has returned.
C8_Witness == pc = "returned" /\ Scenario1 /\ Len(result) = 1

\* The sum of fieldScore * weight over the keys of a field-score map.
RECURSIVE SumOverFields(_, _)
SumOverFields(matches, fields) ==
    IF fields = {} THEN Zero
    ELSE LET f == CHOOSE g \in fields : TRUE
         IN  RAdd(RMul(matches[f], weights[f]), SumOverFields(matches, fields \ {f}))

\* C9: the score of a scored descriptor is the sum, over the field scores
\* its MatchScore holds, of field score times the weight of the field.
C9_ScoreIsWeightedSum ==
    \A i \in DOMAIN tasks :
        Done(i) =>
            tasks[i].scores.score =
                SumOverFields(tasks[i].scores.matches, DOMAIN tasks[i].scores.matches)

\* The same for the descriptors whose scoring did not fail.
WeightedSumWhenScoringSucceeds ==
    \A i \in DOMAIN tasks :
        (Done(i) /\ ~ScoringFails(catalog[i], query)) =>
            tasks[i].scores.score =
                SumOverFields(tasks[i].scores.matches, DOMAIN tasks[i].scores.matches)

\* jaccard as the specification defines it: 0 for two empty sets.
SpecJaccard(setA, setB) ==
    IF setA \cup setB = {} THEN Zero ELSE jaccardSimilarity(setA, setB)

\* normalize of the query keywords joined into one text.
NormalizedKeywords(q) == extractKeyTerms(Join(Get(q.keywords)))

\* C10: with keywords in the query, each of the name, description and
\* similes scores a MatchScore holds is the Jaccard similarity of the
\* normalized field and the normalized keywords, times 1, 0.8 and 0.6.
C10_KeywordsNormalized ==
    \A i \in DOMAIN tasks :
        (Done(i) /\ HasItems(query.keywords)) =>
            LET m == tasks[i].scores.matches
                a == catalog[i]
                kw == NormalizedKeywords(query)
            IN  /\ "name" \in DOMAIN m =>
                       m.name = SpecJaccard(extractKeyTerms(Get(a.name)), kw)
                /\ "description" \in DOMAIN m =>
                       m.description =
                           RMul(SpecJaccard(extractKeyTerms(Get(a.description)), kw),
                                DescriptionFactor)
                /\ "similes" \in DOMAIN m =>
                       m.similes =
                           RMul(SpecJaccard(extractKeyTerms(Join(Get(a.similes))), kw),
                                SimilesFactor)

\* The same for the queries whose keywords are their own normalization: each
\* keyword one lowercase word of more than two word characters, no two alike.
KeywordsAreTerms(q) ==
    /\ queryTerms(q) = NormalizedKeywords(q)
    /\ \A k \in Range(Get(q.keywords)) : toLowerCase(k) \in NormalizedKeywords(q)

KeywordScoresForTermKeywords ==
    (HasItems(query.keywords) /\ KeywordsAreTerms(query)) => C10_KeywordsNormalized

\* An optional array that is given and holds at least one element.
NonEmpty(o) == o # None /\ o[1] # <<>>

\* The keys the field-score map of a scoring of action against q is to hold.
ExpectedFields(action, q) ==
    (IF NonEmpty(q.keywords) THEN {"name", "description"} ELSE {})
    \cup (IF NonEmpty(q.keywords) /\ NonEmpty(action.similes) THEN {"similes"} ELSE {})
    \cup (IF NonEmpty(q.capabilities) THEN {"capabilities"} ELSE {})

\* C11: in the MatchScore of a scoring that does not fail, the field-score
\* map holds name and description exactly when query.keywords is non-empty,
\* similes exactly when query.keywords and the action's similes are both
\* non-empty, capabilities exactly when query.capabilities is non-empty, and
\* no other key.
C11_FieldsPresentIffCriterion ==
    \A i \in DOMAIN tasks :
        Done(i) /\ ~ScoringFails(catalog[i], query)
            => DOMAIN tasks[i].scores.matches = ExpectedFields(catalog[i], query)

\* A scoring has resolved with name and description only: the query has
\* keywords and an empty capabilities array, the action an empty similes array.
C11_Witness ==
    \E i \in DOMAIN tasks :
        /\ Done(i) /\ ~ScoringFails(catalog[i], query)
        /\ NonEmpty(query.keywords)
        /\ catalog[i].similes = Some(<<>>)
        /\ query.capabilities = Some(<<>>)
        /\ DOMAIN tasks[i].scores.matches = {"name", "description"}

\* The call of the primitive fn has returned.
Returned(fn) == prim.fn = fn /\ prim.ret # None

\* The similarities of one query tag against each of the action's tags.
Similarities(queryCap, actionCaps) ==
    {getWordSimilarity(queryCap, actionCaps[i]) : i \in DOMAIN actionCaps}

\* The query tag has a similarity above 0.7 against some tag of the action.
IsMatched(queryCap, actionCaps) ==
    \E s \in Similarities(queryCap, actionCaps) : RGt(s, <<7, 10>>)

\* The greatest of the similarities of a matched query tag.
BestSimilarity(queryCap, actionCaps) ==
    CHOOSE s \in Similarities(queryCap, actionCaps) :
        \A t \in Similarities(queryCap, actionCaps) : RGe(s, t)

RECURSIVE SumOfBest(_, _, _)
SumOfBest(positions, queryCaps, actionCaps) ==
    IF positions = {} THEN Zero
    ELSE LET i == CHOOSE j \in positions : TRUE
         IN  RAdd(BestSimilarity(queryCaps[i], actionCaps),
                  SumOfBest(positions \ {i}, queryCaps, actionCaps))

\* The mean of the best similarities over the matched query tags, 0 if none.
MeanOverMatched(actionCaps, queryCaps) ==
    LET matched == {i \in DOMAIN queryCaps : IsMatched(queryCaps[i], actionCaps)}
    IN  IF matched = {} THEN Zero
        ELSE RDiv(SumOfBest(matched, queryCaps, actionCaps), <<Cardinality(matched), 1>>)

\* C12: the capabilities score is the mean of the best similarities over the
\* matched query tags only, 0 when none is matched; the five-tag query of
\* which one tag matches at 0.9 scores 0.9.
C12_MeanOverMatchedTags ==
    Returned("calculateCapabilitySimilarity") =>
        /\ Get(prim.ret) = MeanOverMatched(prim.args[1], prim.args[2])
        /\ prim.args = <<<<PredictorsTag>>, FiveTags>> => Get(prim.ret) = <<9, 10>>

\* The five-tag call has resolved to 0.9.
C12_Witness ==
    /\ Returned("calculateCapabilitySimilarity")
    /\ prim.args = <<<<PredictorsTag>>, FiveTags>>
    /\ Cardinality({i \in DOMAIN FiveTags : IsMatched(FiveTags[i], <<PredictorsTag>>)}) = 1
    /\ Get(prim.ret) = <<9, 10>>

\* C13: a query tag is matched exactly when its best similarity against the
\* action's tags is strictly greater than 0.7.  For a call with one query
\* tag the result is that best similarity when it exceeds 0.7 and 0
\* otherwise; a best similarity of exactly 0.70 (seven common characters out
\* of ten, or 70 out of 100) gives 0, one of 0.71 gives 0.71.
C13_StrictThreshold ==
    Returned("calculateCapabilitySimilarity") =>
        LET actionCaps == prim.args[1]
            queryCaps == prim.args[2]
            ret == Get(prim.ret)
        IN  /\ Len(queryCaps) = 1 =>
                LET sims == Similarities(queryCaps[1], actionCaps)
                IN  /\ ret # Zero <=> \E s \in sims : RGt(s, <<7, 10>>)
                    /\ ret # Zero => ret \in sims /\ \A s \in sims : RGe(ret, s)
                    /\ <<7, 10>> \in sims /\ (\A s \in sims : RGe(<<7, 10>>, s))
                           => ret = Zero
            /\ prim.args = <<<<AbcdefghijTag>>, <<AbcdefgxyzTag>>>> => ret = Zero
            /\ prim.args = <<<<Repeated(100)>>, <<Repeated(70)>>>> => ret = Zero
            /\ prim.args = <<<<Repeated(100)>>, <<Repeated(71)>>>> => ret = <<71, 100>>

\* The call whose one query tag has a best similarity of exactly 0.70 has
\* resolved to 0.
C13_Witness ==
    /\ Returned("calculateCapabilitySimilarity")
    /\ prim.args = <<<<AbcdefghijTag>>, <<AbcdefgxyzTag>>>>
    /\ getWordSimilarity(AbcdefgxyzTag, AbcdefghijTag) = <<7, 10>>
    /\ Get(prim.ret) = Zero

\* The call whose one query tag has a best similarity of 0.71 has resolved
\* to 0.71.
JustAboveThresholdMatched ==
    /\ Returned("calculateCapabilitySimilarity")
    /\ prim.args = <<<<Repeated(100)>>, <<Repeated(71)>>>>
    /\ Get(prim.ret) = <<71, 100>>

\* C20: jaccardSimilarity of two empty sets is 0.
C20_EmptyJaccardIsZero ==
    Returned("jaccardSimilarity") /\ prim.args = <<{}, {}>> => Get(prim.ret) = Zero

\* jaccardSimilarity is |A \cap B| / |A \cup B| whenever one of the sets
\* has an element.
JaccardOfNonEmptySets ==
    Returned("jaccardSimilarity") /\ prim.args # <<{}, {}>> =>
        LET A == prim.args[1]
            B == prim.args[2]
        IN  /\ Get(prim.ret)[1] * Cardinality(A \cup B)
                   = Cardinality(A \cap B) * Get(prim.ret)[2]
            /\ Get(prim.ret)[2] > 0

\* The query supplies no keywords and no capabilities.
NoCriteria(q) == ~NonEmpty(q.keywords) /\ ~NonEmpty(q.capabilities)

\* The minScore the caller gave is above 0, or the caller gave none.
MinScoreAboveZero == options.minScore = None \/ RGt(options.minScore[1], Zero)

\* C14 as stated: rankActions with an empty catalog, or with a query without
\* keywords and capabilities, does not throw and returns an empty array,
\* whatever minScore and maxResults are.
C14_EmptyInputsGiveEmptyResult ==
    /\ pc # "threw"
    /\ pc = "returned" /\ (catalog = <<>> \/ NoCriteria(query)) => result = <<>>

\* C14, amended: rankActions with an empty catalog, or with a query without
\* keywords and capabilities, does not throw; it returns an empty array when
\* the catalog is empty or minScore is above 0 (as the default is).  With a
\* query without criteria and minScore at 0 every descriptor scores 0 with no
\* field scores and passes the filter: for a maxResults of at least 1 the
\* result is then the first maxResults descriptors in catalog order.
C14_EmptyResultForPositiveMinScore ==
    /\ pc # "threw"
    /\ pc = "returned" /\ (catalog = <<>> \/ (NoCriteria(query) /\ MinScoreAboveZero))
           => result = <<>>
    /\ pc = "returned" /\ NoCriteria(query) /\ ~MinScoreAboveZero
           /\ (options.maxResults = None \/ options.maxResults[1] >= 1)
           => /\ Len(result) = IntMin(Len(catalog), maxResultsOf(options))
              /\ \A k \in DOMAIN result :
                     /\ result[k].action = catalog[k]
                     /\ result[k].score = [score |-> Zero, matches |-> NoMatches]

\* rankActions has returned an empty array for a non-empty catalog and a
\* query without criteria, with the default minScore.
C14_Witness ==
    /\ pc = "returned"
    /\ catalog # <<>>
    /\ NoCriteria(query)
    /\ options.minScore = None
    /\ result = <<>>

\* The options with each omitted parameter written out as 0.3 and 50.
ExplicitOptions(opts) ==
    [minScore |-> IF opts.minScore = None THEN Some(<<3, 10>>) ELSE opts.minScore,
     maxResults |-> IF opts.maxResults = None THEN Some(50) ELSE opts.maxResults]

\* The scored actions whose score is at least min, sorted and cut to the
\* first max.
KeptSortedCut(min, max) ==
    slice0(sortByScore(SelectSeq(scoredActions(catalog, TaskScores),
                                 LAMBDA e : RGe(e.score.score, min))), max)

\* C15: an omitted minScore is 0.3 and an omitted maxResults is 50, and a
\* supplied parameter is used as given: the call returns what the call with
\* the omitted parameters written out returns, which is the scored actions
\* of score at least that minScore, sorted and cut to that maxResults.
C15_OmittedParametersTakeDefaults ==
    pc = "returned" =>
        LET explicit == ExplicitOptions(options)
        IN  /\ result = rankActions(catalog, query, explicit)
            /\ result = KeptSortedCut(explicit.minScore[1], explicit.maxResults[1])

\* rankActions has returned for a call without options: the result holds an
\* action and leaves out one whose score lies below 0.3.
C15_Witness ==
    /\ pc = "returned"
    /\ options = [minScore |-> None, maxResults |-> None]
    /\ result # <<>>
    /\ \E i \in DOMAIN tasks :
           /\ RGt(<<3, 10>>, tasks[i].scores.score)
           /\ \A k \in DOMAIN result : result[k].idx # i

\* C16: calculateMatchScore and rankActions leave their arguments as they
\* were: no step changes the catalog (its elements, their order, the fields
\* of each descriptor) or the query.
C16_InputsUnchanged == [][catalog' = catalog /\ query' = query]_vars

\* rankActions has returned the two actions of the catalog in the other
\* order: sorting has moved the second action to the front of the result,
\* and the catalog is in the order it was passed in.
C16_Witness ==
    /\ pc = "returned"
    /\ Len(catalog) = 2 /\ Len(result) = 2
    /\ catalog[1] # catalog[2]
    /\ result[1].action = catalog[2] /\ result[1].idx = 2
    /\ result[2].action = catalog[1]

\* The values of contextTerms the query is compared under.
ContextTermsPool == {None, Some(<<MarketText, TradingTag>>)}

WithContextTerms(q, ctx) == [q EXCEPT !.contextTerms = ctx]

\* C17: scoring does not depend on query.contextTerms: the score of every
\* scored descriptor, and the array rankActions returns, are those of the
\* query with any other contextTerms and the same keywords and capabilities.
C17_ContextTermsIgnored ==
    \A ctx \in ContextTermsPool :
        /\ \A i \in DOMAIN tasks :
               Done(i) => tasks[i].scores
                              = calculateMatchScore(catalog[i], WithContextTerms(query, ctx))
        /\ pc = "returned"
               => result = rankActions(catalog, WithContextTerms(query, ctx), options)

\* rankActions has returned a non-empty array for a query with contextTerms,
\* and the query without them is one the model also ranks with.
C17_Witness ==
    /\ pc = "returned"
    /\ query.contextTerms = Some(<<TrendsText>>)
    /\ WithContextTerms(query, None) \in RankQueries
    /\ result # <<>>
    /\ \E i \in DOMAIN tasks : "name" \in DOMAIN tasks[i].scores.matches

\* The terms of an optional text, none when the text is absent.
TermsOf(o) == IF o = None THEN {} ELSE extractKeyTerms(o[1])

\* The terms of the descriptor's name, description and similes.
DescriptorTerms(action) ==
    TermsOf(action.name) \cup TermsOf(action.description)
    \cup (IF action.similes = None THEN {}
          ELSE UNION {extractKeyTerms(action.similes[1][k]) :
                          k \in DOMAIN action.similes[1]})

\* The terms of the query's keywords, each keyword normalized.
KeywordTerms(q) ==
    IF q.keywords = None THEN {}
    ELSE UNION {extractKeyTerms(q.keywords[1][k]) : k \in DOMAIN q.keywords[1]}

\* The descriptor's capability tags, or the terms of its name and
\* description when it has none.
EffectiveTags(action) ==
    IF action.capabilities # None THEN Range(action.capabilities[1])
    ELSE TermsOf(action.name) \cup TermsOf(action.description)

\* Two tags that begin with the same character, case aside.
SharePrefix(tag1, tag2) ==
    /\ tag1 # <<>> /\ tag2 # <<>>
    /\ toLowerCase(tag1)[1] = toLowerCase(tag2)[1]

\* The descriptor shares no term with the query's keywords and no prefix
\* with the query's capabilities.
Unrelated(action, q) ==
    /\ DescriptorTerms(action) \cap KeywordTerms(q) = {}
    /\ q.capabilities # None =>
           \A k \in DOMAIN q.capabilities[1] : \A tag \in EffectiveTags(action) :
               ~SharePrefix(q.capabilities[1][k], tag)

\* C18: end-to-end scenario 2: for a catalog of one descriptor unrelated to
\* the query's keywords and capabilities, rankActions with the default
\* minScore returns an empty array.
C18_UnrelatedDescriptorNotReturned ==
    pc = "returned" /\ Len(catalog) = 1 /\ options.minScore = None
        /\ Unrelated(catalog[1], query)
        => result = <<>>

\* rankActions has returned an empty array for a descriptor with a name, a
\* description and capability tags, scored 0 on each of them against a query
\* with keywords and capabilities.
C18_Witness ==
    /\ pc = "returned" /\ Len(catalog) = 1 /\ options.minScore = None
    /\ Unrelated(catalog[1], query)
    /\ NonEmpty(query.keywords) /\ NonEmpty(query.capabilities)
    /\ NonEmpty(catalog[1].capabilities)
    /\ tasks[1].scores.matches =
           [f \in {"name", "description", "capabilities"} |-> Zero]
    /\ result = <<>>

\* s without the whitespace at its ends: from its first to its last
\* character that is no whitespace.
Trimmed(s) ==
    LET solid == {i \in DOMAIN s : s[i] \notin {" ", "TAB"}}
    IN  IF solid = {} THEN <<>>
        ELSE SubSeq(s, CHOOSE i \in solid : \A j \in solid : i <= j,
                       CHOOSE i \in solid : \A j \in solid : i >= j)

\* The payload is an object with a string content that is not blank and a
\* string signature of at least ten characters once trimmed.
WellFormedThought(p) ==
    /\ p.type = "object"
    /\ p.content.type = "string" /\ Trimmed(p.content.text) # <<>>
    /\ p.signature.type = "string" /\ Len(Trimmed(p.signature.text)) >= 10

ContractCalled ==
    \E k \in DOMAIN handler.calls : handler.calls[k].fn = "callContract.recordMemory"

\* C19: the handler rejects with ThinkProtocolError every payload that is
\* not an object with a non-blank string content and a string signature of
\* at least 10 characters after trimming, and calls neither secureVerify
\* nor the contract for it; recordMemory is called only after the payload
\* passed validation and secureVerify returned true.
C19_InvalidThoughtRejectedBeforeAnyCall ==
    /\ handler.pc # "idle" /\ ~WellFormedThought(handler.payload) =>
           /\ handler.calls = <<>>
           /\ handler.pc \in {"called", "rejected"}
           /\ handler.pc = "rejected" =>
                  handler.error # None /\ handler.error[1].name = "ThinkProtocolError"
    /\ ContractCalled =>
           /\ WellFormedThought(handler.payload)
           /\ handler.isValid = Some(TRUE)
           /\ Len(handler.calls) = 2 /\ handler.calls[1].fn = "secureVerify"
    /\ handler.pc = "resolved" => ContractCalled

\* The handler has rejected an object whose content is given and whose
\* signature is long enough only with its padding, with no runtime call made.
C19_Witness ==
    /\ handler.pc = "rejected"
    /\ handler.payload = ThoughtObject(JsString(TestText), JsString(PaddedEightDigits))
    /\ handler.error = Some(ThinkProtocolError("Invalid or missing thought signature"))
    /\ handler.calls = <<>>

\* The handler has rejected the payload { content: 'test' } of the test.
TestPayloadRejected ==
    /\ handler.pc = "rejected"
    /\ handler.payload = ThoughtObject(JsString(TestText), JsUndefined)
    /\ handler.error[1].name = "ThinkProtocolError"

\* The handler has returned after recording the thought.
ThoughtRecorded == handler.pc = "resolved" /\ ContractCalled

\* x === y on numbers: NaN equals nothing, itself included.
SameNumber(x, y) == ~IsNaN(x) /\ ~IsNaN(y) /\ x = y

\* jaccardSimilarity(A, B), as returned, is jaccardSimilarity(B, A), lies in
\* [0, 1], and is 1 when A = B is non-empty.
JaccardLaws(A, B, ret) ==
    /\ SameNumber(ret, jaccardSimilarity(B, A))
    /\ RGe(ret, Zero) /\ RGe(One, ret)
    /\ A = B /\ A # {} => SameNumber(ret, One)

\* C21: for all term sets A and B, jaccard(A, B) = jaccard(B, A),
\* 0 <= jaccard(A, B) <= 1, and jaccard(A, A) = 1 when A is non-empty.
C21_JaccardLaws ==
    Returned("jaccardSimilarity") =>
        JaccardLaws(prim.args[1], prim.args[2], Get(prim.ret))

\* The laws of C21 hold for every pair of sets of which one has an element.
JaccardLawsForNonEmptyUnion ==
    Returned("jaccardSimilarity") /\ prim.args # <<{}, {}>> =>
        JaccardLaws(prim.args[1], prim.args[2], Get(prim.ret))

\* The number of leading positions at which a and b hold the same character.
CommonPrefixLength(a, b) ==
    Cardinality({k \in 1..IntMin(Len(a), Len(b)) : \A j \in 1..k : a[j] = b[j]})

\* ret is the common prefix length of the lowercased words over the longer
\* of the two lengths, a value in [0, 1], and 0 when the lowercased words
\* share no prefix.
WordSimilarityLaws(w1, w2, ret) ==
    LET prefix == CommonPrefixLength(toLowerCase(w1), toLowerCase(w2))
        longer == IntMax(Len(w1), Len(w2))
    IN  /\ RGe(ret, Zero) /\ RGe(One, ret)
        /\ longer > 0 => ret[2] > 0 /\ ret[1] * longer = prefix * ret[2]
        /\ prefix = 0 => ret = Zero

\* C22: wordSimilarity(w1, w2) is the length of the longest common prefix of
\* the lowercased words divided by the longer of the two lengths, lies in
\* [0, 1] for all words, empty ones included, and is 0 when the words share
\* no prefix; wordSimilarity("trade", "trading") exceeds
\* wordSimilarity("trade", "logistics").
C22_WordSimilarityIsPrefixRatio ==
    Returned("getWordSimilarity") =>
        /\ WordSimilarityLaws(prim.args[1], prim.args[2], Get(prim.ret))
        /\ prim.args = <<TradeText, TradingTag>> =>
               RGt(Get(prim.ret), getWordSimilarity(TradeText, LogisticsText))

\* The laws of C22 hold for every pair of words of which one is non-empty
\* and neither holds U+0130.
WordSimilarityForPlainWords ==
    Returned("getWordSimilarity") /\ prim.args # <<EmptyText, EmptyText>>
        /\ IDotAbove \notin Range(prim.args[1]) \cup Range(prim.args[2])
        => /\ WordSimilarityLaws(prim.args[1], prim.args[2], Get(prim.ret))
           /\ prim.args = <<TradeText, TradingTag>> =>
                  /\ Get(prim.ret) = <<4, 7>>
                  /\ getWordSimilarity(TradeText, LogisticsText) = Zero

\* The elements of a set, in a sequence.
RECURSIVE SeqOf(_)
SeqOf(S) ==
    IF S = {} THEN <<>>
    ELSE LET x == CHOOSE y \in S : TRUE IN <<x>> \o SeqOf(S \ {x})

\* The descriptor has the fields the effective capability set is taken from:
\* its capabilities, or else its name and description.
HasEffectiveTags(action) ==
    action.capabilities # None \/ (action.name # None /\ action.description # None)

\* C23: when the query has capabilities, its tags are compared against the
\* descriptor's capabilities whenever the descriptor has that field, an empty
\* one included, and against the terms of its name and description only when
\* it has no capabilities field.
C23_EffectiveCapabilities ==
    \A i \in DOMAIN tasks :
        Done(i) /\ ~ScoringFails(catalog[i], query) /\ NonEmpty(query.capabilities)
            /\ HasEffectiveTags(catalog[i])
            => /\ "capabilities" \in DOMAIN tasks[i].scores.matches
               /\ tasks[i].scores.matches["capabilities"]
                      = MeanOverMatched(SeqOf(EffectiveTags(catalog[i])),
                                        query.capabilities[1])

\* A descriptor named "Market Analyzer" with an empty capabilities array has
\* been scored 0 on capabilities against the query tag "market".
C23_Witness ==
    \E i \in DOMAIN tasks :
        /\ Done(i) /\ ~ScoringFails(catalog[i], query)
        /\ catalog[i].capabilities = Some(<<>>)
        /\ catalog[i].name = Some(MarketAnalyzerText)
        /\ catalog[i].description # None
        /\ query.capabilities = Some(<<MarketText>>)
        /\ tasks[i].scores.matches["capabilities"] = Zero

\* The same descriptor without a capabilities field has been scored 1 on
\* capabilities against the query tag "market", a term of its name.
DerivedCapabilitiesMatched ==
    \E i \in DOMAIN tasks :
        /\ Done(i) /\ ~ScoringFails(catalog[i], query)
        /\ catalog[i].capabilities = None
        /\ catalog[i].name = Some(MarketAnalyzerText)
        /\ catalog[i].description # None
        /\ query.capabilities = Some(<<MarketText>>)
        /\ tasks[i].scores.matches["capabilities"] = One

\* The characters a term may hold: lowercase letters, digits and "_".
TermChars == Range(LowerChars) \cup Range(DigitChars) \cup {"_"}

\* The text lowercased, without the characters that are neither word
\* characters nor whitespace.
Cleaned(text) ==
    SelectSeq(toLowerCase(text),
              LAMBDA c : c \in TermChars \cup Range(UpperChars) \cup {" ", "TAB"})

\* The tokens of s: its maximal runs of characters that are no whitespace.
Tokens(s) ==
    LET solid(i) == s[i] \notin {" ", "TAB"}
    IN  {SubSeq(s, q[1], q[2]) : q \in
            {p \in (DOMAIN s) \X (DOMAIN s) :
                /\ p[1] <= p[2]
                /\ \A k \in p[1]..p[2] : solid(k)
                /\ p[1] = 1 \/ ~solid(p[1] - 1)
                /\ p[2] = Len(s) \/ ~solid(p[2] + 1)}}

\* The tokens of the cleaned text that are longer than two characters.
KeyTokens(text) == {t \in Tokens(Cleaned(text)) : Len(t) > 2}

\* C24: extractKeyTerms returns exactly the distinct tokens of the
\* lowercased text, stripped of the characters that are neither word
\* characters nor whitespace and split on runs of whitespace, that are longer
\* than two characters; every term is lowercase and longer than two, an empty
\* or blank text gives the empty set, and the result depends on the text only.
C24_KeyTermsAreNormalizedTokens ==
    Returned("extractKeyTerms") =>
        LET text == prim.args[1]
            terms == Get(prim.ret)
        IN  /\ terms = KeyTokens(text)
            /\ \A t \in terms : Len(t) > 2 /\ Range(t) \subseteq TermChars
            /\ (\A i \in DOMAIN text : text[i] \in {" ", "TAB"}) => terms = {}
            /\ terms = extractKeyTerms(text)

\* extractKeyTerms("It's a co-op") has returned {"its", "coop"}.
C24_Witness ==
    /\ Returned("extractKeyTerms")
    /\ prim.args = <<CoOpText>>
    /\ Get(prim.ret) = {<<"i", "t", "s">>, <<"c", "o", "o", "p">>}

\* extractKeyTerms of a blank text has returned the empty set.
BlankTextHasNoTerms ==
    Returned("extractKeyTerms") /\ prim.args = <<BlankText>> /\ Get(prim.ret) = {}

\* The least number of insertions, deletions and substitutions of one
\* character that turn a into b.
RECURSIVE EditDistance(_, _)
EditDistance(a, b) ==
    IF a = <<>> THEN Len(b)
    ELSE IF b = <<>> THEN Len(a)
    ELSE IF Head(a) = Head(b) THEN EditDistance(Tail(a), Tail(b))
    ELSE 1 + IntMin(EditDistance(Tail(a), Tail(b)),
                    IntMin(EditDistance(Tail(a), b), EditDistance(a, Tail(b))))

\* C25: levenshtein(a, b) is the edit distance of a and b:
\* levenshtein("", b) = len(b), levenshtein(a, b) = levenshtein(b, a),
\* levenshtein(a, a) = 0, levenshtein(a, c) <= levenshtein(a, b) +
\* levenshtein(b, c), and levenshtein("kitten", "sitting") = 3.
C25_LevenshteinIsEditDistance ==
    Returned("levenshteinDistance") =>
        LET a == prim.args[1]
            b == prim.args[2]
            ret == Get(prim.ret)
        IN  /\ a \in LevenshteinWords /\ b \in LevenshteinWords
                  => /\ ret = EditDistance(a, b)
                     /\ \A c \in LevenshteinWords :
                            levenshteinDistance(a, c) <= ret + levenshteinDistance(b, c)
            /\ a = <<>> => ret = Len(b)
            /\ ret = levenshteinDistance(b, a)
            /\ a = b => ret = 0
            /\ ret >= 0
            /\ prim.args = <<KittenText, SittingText>> => ret = 3

\* levenshteinDistance("kitten", "sitting") has returned 3.
C25_Witness ==
    /\ Returned("levenshteinDistance")
    /\ prim.args = <<KittenText, SittingText>>
    /\ Get(prim.ret) = 3

\* levenshteinDistance("ab", "ba") has returned 2: a transposition is two
\* edits.
TranspositionCostsTwo ==
    /\ Returned("levenshteinDistance")
    /\ prim.args = <<(<<"a", "b">>), (<<"b", "a">>)>>
    /\ Get(prim.ret) = 2

\* The query supplies capabilities and no keywords.
CapabilitiesOnly(q) == NonEmpty(q.capabilities) /\ ~NonEmpty(q.keywords)

\* C26: for a query with capabilities and without keywords the score of
\* every descriptor is at most 0.2, so rankActions with the default minScore
\* returns an empty array.
C26_CapabilitiesAloneBelowThreshold ==
    CapabilitiesOnly(query) =>
        /\ \A i \in DOMAIN tasks : Done(i) => RGe(<<1, 5>>, tasks[i].scores.score)
        /\ pc = "returned" /\ options.minScore = None => result = <<>>

\* U+0130 occurs in a capability tag of the query or of a catalog entry.
DottedCapability ==
    \/ \E k \in DOMAIN query.capabilities[1] : IDotAbove \in Range(query.capabilities[1][k])
    \/ \E i \in DOMAIN catalog :
           \E tag \in Range(actionCapabilitiesOf(catalog[i])) : IDotAbove \in Range(tag)

\* The statement of C26 holds when no capability tag holds U+0130.
CapabilitiesAloneBelowThresholdForPlainTags ==
    CapabilitiesOnly(query) /\ ~DottedCapability =>
        /\ \A i \in DOMAIN tasks : Done(i) => RGe(<<1, 5>>, tasks[i].scores.score)
        /\ pc = "returned" /\ options.minScore = None => result = <<>>

\* A query with capabilities only has been ranked with the default minScore
\* against a descriptor it matches exactly, and nothing was returned.
ExactCapabilityMatchNotReturned ==
    /\ pc = "returned" /\ options.minScore = None
    /\ CapabilitiesOnly(query) /\ ~DottedCapability
    /\ \E i \in DOMAIN tasks : tasks[i].scores.score = <<1, 5>>
    /\ result = <<>>

\* C27: the score never exceeds 0.9 (name at most 1, description 0.8,
\* similes 0.6 and capabilities 1, weighted 0.4, 0.3, 0.1 and 0.2), and
\* rankActions returns an empty array whenever minScore is above 0.9.
C27_ScoreAtMostNineTenths ==
    /\ \A i \in DOMAIN tasks : RGe(<<9, 10>>, tasks[i].scores.score)
    /\ pc = "returned" /\ options.minScore # None
           /\ RGt(options.minScore[1], <<9, 10>>)
           => result = <<>>

\* U+0130 occurs in a capability tag of the query or of a catalog entry.
DottedTags ==
    \/ NonEmpty(query.capabilities) /\ DottedCapability
    \/ \E i \in DOMAIN catalog :
           \E tag \in Range(actionCapabilitiesOf(catalog[i])) : IDotAbove \in Range(tag)

\* The statement of C27 holds when no capability tag in play holds U+0130.
ScoreAtMostNineTenthsForPlainTags ==
    ~DottedTags =>
        /\ \A i \in DOMAIN tasks : RGe(<<9, 10>>, tasks[i].scores.score)
        /\ pc = "returned" /\ options.minScore # None
               /\ RGt(options.minScore[1], <<9, 10>>)
               => result = <<>>

\* A descriptor has scored 0.9, and rankActions with minScore 0.95 has
\* returned nothing.
TopScoreNotReturned ==
    /\ pc = "returned" /\ options.minScore = Some(<<19, 20>>)
    /\ \E i \in DOMAIN tasks : tasks[i].scores.score = <<9, 10>>
    /\ result = <<>>

\* The extracted content gives no value for the match option: it has no
\* filters or no matchOptions object, or the option is absent from it or null.
Undetermined(option) ==
    \/ discover.content.filters = None
    \/ Len(discover.content.filters[1].matchOptions) # 1
    \/ Len(discover.content.filters[1].matchOptions[1][option]) # 1

\* The extracted content leaves the match option out: as Undetermined,
\* without the case of an option that is null.
LeftOut(option) ==
    \/ discover.content.filters = None
    \/ Len(discover.content.filters[1].matchOptions) # 1
    \/ Len(discover.content.filters[1].matchOptions[1][option]) = 0

\* Some scored action has a score of at least min.
SomeScoreAtLeast(min) ==
    \E i \in DOMAIN tasks : RGe(tasks[i].scores.score, min)

\* The options rankActions was called with are numbers; an option for which
\* none(option) holds is the handler's default, 0.3 or 20, so that the result
\* is not cut to nothing and holds no score below 0.3.
UsableMatchOptions(none(_)) ==
    discover.pc = "ranking" =>
        /\ Len(options.minScore) = 1 /\ Len(options.maxResults) = 1
        /\ none("minScore") => options.minScore = Some(<<3, 10>>)
        /\ none("maxResults") => options.maxResults = Some(20)
        /\ pc = "returned" /\ none("minScore") =>
               \A k \in DOMAIN result : RGe(result[k].score.score, <<3, 10>>)
        /\ pc = "returned" /\ none("maxResults") /\ none("minScore")
               /\ SomeScoreAtLeast(<<3, 10>>)
               => result # <<>>

\* C28: the minScore and maxResults that reach rankActions from the
\* DISCOVER_ACTIONS handler are numbers: whenever the extracted filters give
\* no value for one (it is absent or null), the handler's default 0.3 or 20
\* is in effect, so an undetermined maxResults never cuts the ranked list to
\* nothing and an undetermined minScore never disables the threshold.
C28_UndeterminedOptionsTakeDefaults == UsableMatchOptions(Undetermined)

\* The statement of C28 holds for options the extracted content leaves out.
LeftOutOptionsTakeDefaults ==
    discover.pc = "ranking" =>
        /\ LeftOut("minScore") => options.minScore = Some(<<3, 10>>)
        /\ LeftOut("maxResults") => options.maxResults = Some(20)
        /\ pc = "returned" /\ LeftOut("minScore") =>
               \A k \in DOMAIN result : RGe(result[k].score.score, <<3, 10>>)
        /\ pc = "returned" /\ LeftOut("maxResults") /\ LeftOut("minScore")
               /\ SomeScoreAtLeast(<<3, 10>>)
               => result # <<>>

\* rankActions has returned nothing for a null maxResults although an
\* action scored at least 0.3.
NullMaxResultsCutsToNothing ==
    /\ discover.pc = "ranking" /\ pc = "returned"
    /\ options.maxResults = NullOption
    /\ SomeScoreAtLeast(<<3, 10>>)
    /\ result = <<>>

\* rankActions has returned an action of score below 0.3 for a null minScore.
NullMinScoreDisablesThreshold ==
    /\ discover.pc = "ranking" /\ pc = "returned"
    /\ options.minScore = NullOption
    /\ \E k \in DOMAIN result : RGt(<<3, 10>>, result[k].score.score)

\* The ways to assign to every result a catalog position of its own.
Provenances ==
    {f \in [DOMAIN result -> DOMAIN catalog] :
        \A j, k \in DOMAIN result : j # k => f[j] # f[k]}

\* C29: every result rankActions returns pairs a descriptor of the catalog
\* with the score calculateMatchScore gives for that descriptor and the
\* query, and each catalog position contributes at most one result: the
\* results can be assigned distinct catalog positions whose descriptor and
\* score they hold.
C29_ResultsPairCatalogEntriesWithTheirScores ==
    pc = "returned" =>
        \E f \in Provenances :
            \A k \in DOMAIN result :
                /\ result[k].action = catalog[f[k]]
                /\ result[k].score = calculateMatchScore(catalog[f[k]], query)

\* Two descriptors of different scores have been returned, each with its own.
C29_Witness ==
    /\ pc = "returned"
    /\ Len(catalog) = 2 /\ Len(result) = 2
    /\ result[1].action = catalog[2] /\ result[2].action = catalog[1]
    /\ result[1].score = calculateMatchScore(catalog[2], query)
    /\ result[2].score = calculateMatchScore(catalog[1], query)
    /\ result[1].score # result[2].score

\* v is exactly 0 or lies in the interval (0.7, 1].
ZeroOrAboveThreshold(v) ==
    v = Zero \/ (RGt(v, <<7, 10>>) /\ RGe(One, v))

\* C30: whenever the capabilities field score is present it is exactly 0 or
\* lies in (0.7, 1], never in (0, 0.7]: it is a mean of best similarities
\* each strictly above the threshold 0.7.
C30_CapabilitiesScoreZeroOrAboveThreshold ==
    \A i \in DOMAIN tasks :
        Done(i) /\ "capabilities" \in DOMAIN tasks[i].scores.matches
            => ZeroOrAboveThreshold(tasks[i].scores.matches["capabilities"])

\* The statement of C30 holds when no capability tag in play holds U+0130.
CapabilitiesScoreForPlainTags ==
    ~DottedTags =>
        \A i \in DOMAIN tasks :
            Done(i) /\ "capabilities" \in DOMAIN tasks[i].scores.matches
                => ZeroOrAboveThreshold(tasks[i].scores.matches["capabilities"])

\* With any tags, the capabilities field score is a number that is 0 or
\* above 0.7.
CapabilitiesScoreNeverInGap ==
    \A i \in DOMAIN tasks :
        Done(i) /\ "capabilities" \in DOMAIN tasks[i].scores.matches
            => LET v == tasks[i].scores.matches["capabilities"]
               IN  v = Zero \/ RGt(v, <<7, 10>>)

\* A capabilities field score of 2 has been computed.
CapabilitiesScoreOfTwo ==
    \E i \in DOMAIN tasks :
        /\ Done(i) /\ "capabilities" \in DOMAIN tasks[i].scores.matches
        /\ tasks[i].scores.matches["capabilities"] = <<2, 1>>

=============================================================================
